---- MODULE Spec2Model ----
(***************************************************************************)
(* A model of the Replicate provider for the Vercel AI SDK                 *)
(* (src/unnamed/part_000): parseModelId, the request built by              *)
(* makeLanguageModelPrediction, the two network calls, the stream          *)
(* transcoder and the doGenerate / doStream entry points.                  *)
(*                                                                         *)
(* A JavaScript string is a sequence of one-character strings; multi-      *)
(* character literals of the source that are never taken apart are one     *)
(* element ("/v1/predictions").  A value that may be undefined is a record *)
(* [present, value].                                                       *)
(***************************************************************************)
EXTENDS Integers, Sequences, FiniteSets, TLC

VARIABLES
    pc,                      \* position of the call: start, post, fetch, consume, returned, failed
    entry,                   \* "doGenerate" or "doStream"
    modelId,                 \* createLanguageModel's modelId
    prompt,                  \* the LanguageModelV1Prompt of the call
    settings,                \* createLanguageModel's settings
    transformedPrompt,       \* line 152
    transformedSystemPrompt, \* line 156
    parsed,                  \* result of parseModelId, line 158
    path,                    \* lines 159-162
    body,                    \* lines 164-176
    calls,                   \* network calls issued so far, in order
    response,                \* the answer to the initiation POST
    streamResponse,          \* the answer to the stream GET
    error,                   \* the error the call failed with
    upstream,                \* the parsed events the upstream stream delivers
    pos,                     \* index of the next upstream event to transcode
    parts,                   \* stream parts enqueued by the transcoder, in order
    streamState,             \* none, open, terminated, closed, cancelled
    readPos,                 \* doGenerate: index of the next part to read
    output,                  \* doGenerate: the output array, line 90
    result                   \* doGenerate: the returned object, lines 99-110

vars == <<pc, entry, modelId, prompt, settings, transformedPrompt,
          transformedSystemPrompt, parsed, path, body, calls, response,
          streamResponse, error, upstream, pos, parts, streamState, readPos,
          output, result>>

(***************************************************************************)
(* Bounds of the model.                                                    *)
(***************************************************************************)
MaxLen == 5        \* longest model id string of SpecParse
MaxMsgs == 2       \* longest prompt of SpecBuild
MaxEvents == 3     \* longest upstream event sequence of Spec

(***************************************************************************)
(* Values that may be undefined.                                           *)
(***************************************************************************)
None == [present |-> FALSE, value |-> <<>>]
Some(v) == [present |-> TRUE, value |-> v]

\* JavaScript truthiness of a string | undefined: defined and not "".
Truthy(o) == o.present /\ o.value # <<>>

\* a ?? b
OrElse(o, d) == IF o.present THEN o.value ELSE d

(***************************************************************************)
(* Strings.                                                                *)
(***************************************************************************)
RECURSIVE SeqsUpTo(_, _)
SeqsUpTo(S, n) ==
    IF n = 0 THEN {<<>>}
    ELSE LET shorter == SeqsUpTo(S, n - 1)
         IN  shorter \cup {Append(s, c) : s \in {t \in shorter : Len(t) = n - 1}, c \in S}

\* Array.prototype.join(sep) on an array of strings.
RECURSIVE JoinStrings(_, _)
JoinStrings(arr, sep) ==
    IF arr = <<>> THEN <<>>
    ELSE IF Len(arr) = 1 THEN arr[1]
    ELSE arr[1] \o sep \o JoinStrings(Tail(arr), sep)

\* Array.prototype.toString on an array of strings: join(",").
ArrayToString(arr) == JoinStrings(arr, <<",">>)

(***************************************************************************)
(* parseModelId: the regular expression                                    *)
(*   ^(?<owner>[^/]+)\/(?<name>[^/:]+)(:(?<version>.+))?$                  *)
(* A match is a way to cut ref into owner "/" name [":" version]; the      *)
(* engine returns the first match in its backtracking order: the longest   *)
(* owner, then the longest name.                                           *)
(***************************************************************************)
OwnerChar(c) == c # "/"
NameCharColonAllowed(c) == c # "/"
NameChar(c) == c \notin {"/", ":"}
\* "." matches any character but a line terminator.
DotChar(c) == c \notin {"\n", "\r"}

\* <<i, j>>: the "/" is at i, the name ends at j.
Cuts(ref) ==
    LET n == Len(ref)
    IN  {c \in (1..n) \X (1..n) :
            /\ c[1] >= 2
            /\ ref[c[1]] = "/"
            /\ \A k \in 1..(c[1] - 1) : OwnerChar(ref[k])
            /\ c[2] >= c[1] + 1
            /\ \A k \in (c[1] + 1)..c[2] : NameChar(ref[k])
            /\ \/ c[2] = n
               \/ /\ c[2] + 2 <= n
                  /\ ref[c[2] + 1] = ":"
                  /\ \A k \in (c[2] + 2)..n : DotChar(ref[k])}

FirstCut(ref) ==
    CHOOSE c \in Cuts(ref) :
        \A d \in Cuts(ref) : d[1] < c[1] \/ (d[1] = c[1] /\ d[2] <= c[2])

NoError == [name |-> "none", message |-> <<>>]

\* new Error(`Invalid reference to model version: ${ref}. Expected format: ...`)
InvalidReference(ref) ==
    [name |-> "Error",
     message |-> <<"Invalid reference to model version: ">> \o ref
                 \o <<". Expected format: owner/name or owner/name:version">>]

parseModelId(ref) ==
    IF Cuts(ref) = {}
    THEN [ok |-> FALSE, owner |-> <<>>, name |-> <<>>, version |-> None,
          error |-> InvalidReference(ref)]
    ELSE LET c == FirstCut(ref)
             n == Len(ref)
         IN  [ok |-> TRUE,
              owner |-> SubSeq(ref, 1, c[1] - 1),
              name |-> SubSeq(ref, c[1] + 1, c[2]),
              version |-> IF c[2] = n THEN None ELSE Some(SubSeq(ref, c[2] + 2, n)),
              error |-> NoError]

NotParsed ==
    [ok |-> FALSE, owner |-> <<>>, name |-> <<>>, version |-> None, error |-> NoError]

(***************************************************************************)
(* Prompts.  A system message carries a string; a user or assistant        *)
(* message carries an array of content blocks, of which the text blocks    *)
(* have a text; a tool message carries tool results.  So that messages of  *)
(* different roles can sit in one sequence, every content is a sequence of *)
(* [type, text] records: a system message's string is the text of its one  *)
(* record (SystemContent reads it back).                                   *)
(***************************************************************************)
SystemMessage(s) == [role |-> "system", content |-> <<[type |-> "string", text |-> s]>>]
UserMessage(blocks) == [role |-> "user", content |-> blocks]
AssistantMessage(blocks) == [role |-> "assistant", content |-> blocks]
ToolMessage == [role |-> "tool", content |-> <<[type |-> "tool-result", text |-> <<>>]>>]
Text(s) == [type |-> "text", text |-> s]
Image == [type |-> "image", text |-> <<>>]
ToolCall == [type |-> "tool-call", text |-> <<>>]

\* message.content of a system message: the string itself.
SystemContent(message) == message.content[1].text

\* content.filter((c) => c.type === "text").map((c) => c.text)
TextsOf(content) ==
    LET kept == SelectSeq(content, LAMBDA c : c.type = "text")
    IN  [i \in 1..Len(kept) |-> kept[i].text]

\* The parts array of transformPrompt after the loop: one ARRAY of texts per
\* user or assistant message (parts.push(array)).
RECURSIVE PromptParts(_)
PromptParts(p) ==
    IF p = <<>> THEN <<>>
    ELSE LET message == p[1]
             rest == PromptParts(Tail(p))
         IN  IF message.role \in {"user", "assistant"}
             THEN <<TextsOf(message.content)>> \o rest
             ELSE rest

\* The plain concatenation: what transformPrompt would return if it pushed each
\* text, not the array of a message's texts, onto parts.
transformPromptFlat(p) ==
    LET arrays == PromptParts(p)
    IN  JoinStrings([i \in 1..Len(arrays) |-> JoinStrings(arrays[i], <<>>)], <<>>)

\* parts.join(""): every element of parts is an array, converted with toString.
transformPrompt(p) ==
    LET arrays == PromptParts(p)
    IN  JoinStrings([i \in 1..Len(arrays) |-> ArrayToString(arrays[i])], <<>>)

\* The parts array of transformSystemPrompt: the content of each system message.
SystemParts(p) ==
    LET kept == SelectSeq(p, LAMBDA message : message.role = "system")
    IN  [i \in 1..Len(kept) |-> SystemContent(kept[i])]

transformSystemPrompt(p) ==
    IF Len(SystemParts(p)) # 0 THEN Some(JoinStrings(SystemParts(p), <<>>)) ELSE None

(***************************************************************************)
(* Settings.  A transformer given by the caller is a function of the       *)
(* prompt; the model has one for the prompt (the README's, which wraps     *)
(* the text of each user message in [INST] .. [/INST]) and one for the     *)
(* system prompt (which wraps the system text in <<SYS>> .. <</SYS>>).     *)
(***************************************************************************)
RECURSIVE InstTransformer(_)
InstTransformer(p) ==
    IF p = <<>> THEN <<>>
    ELSE (IF p[1].role = "user"
          THEN <<"[INST]">> \o JoinStrings(TextsOf(p[1].content), <<>>) \o <<"[/INST]">>
          ELSE <<>>) \o InstTransformer(Tail(p))

SysTransformer(p) ==
    <<"[SYS]">> \o JoinStrings(SystemParts(p), <<>>) \o <<"[/SYS]">>

\* Calling a transformer of the settings, or the default one.
CallPromptTransformer(t, p) ==
    IF t = "inst" THEN InstTransformer(p) ELSE transformPrompt(p)

\* A string | undefined result.
CallSystemPromptTransformer(t, p) ==
    CASE t = "inst" -> Some(InstTransformer(p))
      [] t = "sys" -> Some(SysTransformer(p))
      [] OTHER -> transformSystemPrompt(p)

\* line 151: settings.promptTransformer ?? transformPrompt
PromptTransformerOf(st) ==
    IF st.promptTransformer.present THEN st.promptTransformer.value ELSE "default"

\* The transformer that reading settings.systemPromptTransformer (line 33)
\* would select.
SystemPromptTransformerOfOwnSetting(st) ==
    IF st.systemPromptTransformer.present THEN st.systemPromptTransformer.value ELSE "default"

\* lines 154-155: settings.promptTransformer ?? transformSystemPrompt
SystemPromptTransformerOf(st) ==
    IF st.promptTransformer.present THEN st.promptTransformer.value ELSE "default"

\* [key]: value in an object literal, after the spread of f.
Put(f, k, v) == [x \in DOMAIN f \cup {k} |-> IF x = k THEN v ELSE f[x]]

PromptKey(st) == OrElse(st.promptName, "prompt")
SystemPromptKey(st) == OrElse(st.systemPromptName, "system_prompt")

\* A variant of the input object in which the spread of extraInput comes last.
BuildInputExtraLast(st, tp, tsp) ==
    LET own == IF Truthy(tsp)
               THEN Put(Put(<<>>, PromptKey(st), tp), SystemPromptKey(st), tsp.value)
               ELSE Put(<<>>, PromptKey(st), tp)
    IN  [x \in DOMAIN own \cup DOMAIN st.extraInput |->
            IF x \in DOMAIN st.extraInput THEN st.extraInput[x] ELSE own[x]]

\* lines 166-175: the input object.
BuildInput(st, tp, tsp) ==
    LET withPrompt == Put(st.extraInput, PromptKey(st), tp)
    IN  IF Truthy(tsp) THEN Put(withPrompt, SystemPromptKey(st), tsp.value) ELSE withPrompt

\* A variant that always takes the model-specific path.
BuildPathModelOnly(m) ==
    <<"/v1/models/">> \o m.owner \o <<"/">> \o m.name \o <<"/predictions">>

\* lines 159-162
BuildPath(m) ==
    IF Truthy(m.version)
    THEN <<"/v1/predictions">>
    ELSE <<"/v1/models/">> \o m.owner \o <<"/">> \o m.name \o <<"/predictions">>

\* lines 164-176
BuildBody(m, input) ==
    IF Truthy(m.version)
    THEN [version |-> m.version.value, input |-> input]
    ELSE [input |-> input]

NoBody == [input |-> <<>>]

(***************************************************************************)
(* The network.  postJsonToApi answers with a 2xx response whose JSON      *)
(* passes schema.prediction, a 2xx response whose JSON fails it, or a      *)
(* non-2xx response with body {detail}.  fetch answers with or without a   *)
(* body; a body delivers a sequence of parsed server-sent events.          *)
(***************************************************************************)
StreamUrl == <<"https://stream.example/p1">>
Details == {<<"rate limited">>, <<"not found">>}

NoResponse == [status |-> "none", valid |-> FALSE, stream |-> <<>>, detail |-> <<>>]
Responses ==
    {[status |-> "2xx", valid |-> TRUE, stream |-> StreamUrl, detail |-> <<>>],
     [status |-> "2xx", valid |-> FALSE, stream |-> <<>>, detail |-> <<>>]}
    \cup {[status |-> "non-2xx", valid |-> FALSE, stream |-> <<>>, detail |-> d] : d \in Details}

\* A variant of the response handlers that takes every response for a prediction.
PostOutcomeNoCheck(r) ==
    [ok |-> TRUE, error |-> NoError]

\* lines 186-192: the successful and the failed response handler.
PostOutcome(r) ==
    CASE r.status = "non-2xx" ->
            [ok |-> FALSE, error |-> [name |-> "APICallError", message |-> r.detail]]
      [] r.status = "2xx" /\ ~r.valid ->
            [ok |-> FALSE,
             error |-> [name |-> "TypeValidationError", message |-> <<"Type validation failed">>]]
      [] OTHER -> [ok |-> TRUE, error |-> NoError]

MissingResponseBody == [name |-> "Error", message |-> <<"Missing response body">>]

Datas == {<<>>, <<"a">>, <<"b", "c">>}
Events ==
    {[event |-> "output", data |-> d] : d \in Datas}
    \cup {[event |-> "done", data |-> <<"{}">>], [event |-> "ping", data |-> <<"x">>]}
EventSeqs == SeqsUpTo(Events, MaxEvents)

(***************************************************************************)
(* The stream transcoder (TransformStream.transform, lines 209-229).       *)
(***************************************************************************)
FinishPart ==
    [type |-> "finish", finishReason |-> "stop",
     usage |-> [promptTokens |-> 0, completionTokens |-> 0]]
TextDelta(data) == [type |-> "text-delta", textDelta |-> data]

\* A variant that emits a text-delta for every event that is not done.
EnqueuedEveryEvent(ev) ==
    IF ev.event = "done" THEN <<FinishPart>> ELSE <<TextDelta(ev.data)>>

\* The parts one call of transform enqueues.
Enqueued(ev) ==
    IF ev.event = "done" THEN <<FinishPart>>
    ELSE IF ev.event = "output" THEN <<TextDelta(ev.data)>>
    ELSE <<>>

\* Whether the call ends with controller.terminate().
Terminates(ev) == ev.event = "done"

(***************************************************************************)
(* Inputs.                                                                 *)
(***************************************************************************)
Entries == {"doGenerate", "doStream"}
\* The characters of the model ids of SpecParse: a letter, the two delimiters
\* and a line terminator (which "." does not match).
Alphabet == {"a", "/", ":", "\n"}

DefaultSettings ==
    [promptName |-> None, promptTransformer |-> None, systemPromptName |-> None,
     systemPromptTransformer |-> None, extraInput |-> <<>>]

ModelIds ==
    {<<"a", "/", "b">>, <<"a", "/", "b", ":", "v">>, <<"a", "b">>}

Messages ==
    {SystemMessage(<<"s">>), SystemMessage(<<>>),
     UserMessage(<<Text(<<"a">>)>>), UserMessage(<<Text(<<"a">>), Text(<<"b">>)>>),
     UserMessage(<<Image, Text(<<"a">>)>>), AssistantMessage(<<Text(<<"b">>), ToolCall>>),
     ToolMessage}
Prompts == SeqsUpTo(Messages, MaxMsgs)

ExtraInputs ==
    {<<>>,
     [k \in {"top_p"} |-> <<"0.8">>],
     [k \in {"top_p", "prompt", "system_prompt", "p"} |-> <<"extra:", k>>]}

SettingsSet ==
    [promptName : {None, Some("p"), Some("system_prompt")},
     promptTransformer : {None, Some("inst")},
     systemPromptName : {None, Some("p"), Some("prompt")},
     systemPromptTransformer : {None, Some("sys")},
     extraInput : ExtraInputs]

SpecPrompts ==
    {<<UserMessage(<<Text(<<"a">>)>>)>>,
     <<SystemMessage(<<"s">>), UserMessage(<<Text(<<"a">>)>>)>>}

(***************************************************************************)
(* The state after createLanguageModel(modelId, settings), as doGenerate   *)
(* or doStream is entered with a prompt.                                   *)
(***************************************************************************)
InitCall ==
    /\ pc = "start"
    /\ transformedPrompt = <<>>
    /\ transformedSystemPrompt = None
    /\ parsed = NotParsed
    /\ path = <<>>
    /\ body = NoBody
    /\ calls = <<>>
    /\ response = NoResponse
    /\ streamResponse = "none"
    /\ error = NoError
    /\ upstream = <<>>
    /\ pos = 1
    /\ parts = <<>>
    /\ streamState = "none"
    /\ readPos = 1
    /\ output = <<>>
    /\ result = [text |-> <<>>, finishReason |-> "none",
                 usage |-> [promptTokens |-> 0, completionTokens |-> 0]]

Init ==
    /\ entry \in Entries
    /\ modelId \in ModelIds
    /\ prompt \in SpecPrompts
    /\ settings = DefaultSettings
    /\ InitCall

InitBuild ==
    /\ entry = "doStream"
    /\ modelId \in ModelIds
    /\ prompt \in Prompts
    /\ settings \in SettingsSet
    /\ InitCall

InitParse ==
    /\ entry = "doStream"
    /\ modelId \in SeqsUpTo(Alphabet, MaxLen)
    /\ prompt = <<UserMessage(<<Text(<<"a">>)>>)>>
    /\ settings = DefaultSettings
    /\ InitCall

(***************************************************************************)
(* makeLanguageModelPrediction, lines 151-176: the transformers, then      *)
(* parseModelId (which may throw), then the path and the body.             *)
(***************************************************************************)
BuildRequest ==
    /\ pc = "start"
    /\ LET tp == CallPromptTransformer(PromptTransformerOf(settings), prompt)
           tsp == CallSystemPromptTransformer(SystemPromptTransformerOf(settings), prompt)
           m == parseModelId(modelId)
       IN  /\ transformedPrompt' = tp
           /\ transformedSystemPrompt' = tsp
           /\ parsed' = m
           /\ IF m.ok
              THEN /\ path' = BuildPath(m)
                   /\ body' = BuildBody(m, BuildInput(settings, tp, tsp))
                   /\ pc' = "post"
                   /\ error' = error
              ELSE /\ pc' = "failed"
                   /\ error' = m.error
                   /\ UNCHANGED <<path, body>>
    /\ UNCHANGED <<entry, modelId, prompt, settings, calls, response, streamResponse,
                   upstream, pos, parts, streamState, readPos, output, result>>

(***************************************************************************)
(* lines 178-193: the initiation POST and its response handlers.           *)
(***************************************************************************)
PostJsonToApi ==
    /\ pc = "post"
    /\ \E r \in Responses :
        /\ calls' = Append(calls, [method |-> "POST",
                                   url |-> <<"https://api.replicate.com">> \o path])
        /\ response' = r
        /\ IF PostOutcome(r).ok
           THEN pc' = "fetch" /\ error' = error
           ELSE pc' = "failed" /\ error' = PostOutcome(r).error
    /\ UNCHANGED <<entry, modelId, prompt, settings, transformedPrompt,
                   transformedSystemPrompt, parsed, path, body, streamResponse,
                   upstream, pos, parts, streamState, readPos, output, result>>

(***************************************************************************)
(* lines 195-231: the stream GET; without a body the call throws, with one *)
(* the body is piped through the transcoder and the stream is returned:    *)
(* doStream returns it (lines 120-126), doGenerate starts reading it.      *)
(***************************************************************************)
FetchStream ==
    /\ pc = "fetch"
    /\ calls' = Append(calls, [method |-> "GET", url |-> response.stream])
    /\ \E hasBody \in BOOLEAN, evs \in EventSeqs :
        IF hasBody
        THEN /\ streamResponse' = "body"
             /\ upstream' = evs
             /\ streamState' = "open"
             /\ pc' = IF entry = "doGenerate" THEN "consume" ELSE "returned"
             /\ error' = error
        ELSE /\ evs = <<>>
             /\ streamResponse' = "no body"
             /\ pc' = "failed"
             /\ error' = MissingResponseBody
             /\ UNCHANGED <<upstream, streamState>>
    /\ UNCHANGED <<entry, modelId, prompt, settings, transformedPrompt,
                   transformedSystemPrompt, parsed, path, body, response,
                   pos, parts, readPos, output, result>>

(***************************************************************************)
(* One call of transform (lines 209-229) on the next upstream event.       *)
(* After controller.terminate() the writable side is errored and no        *)
(* further event reaches transform.                                        *)
(***************************************************************************)
Transform ==
    /\ streamState = "open"
    /\ pos <= Len(upstream)
    /\ parts' = parts \o Enqueued(upstream[pos])
    /\ pos' = pos + 1
    /\ streamState' = IF Terminates(upstream[pos]) THEN "terminated" ELSE "open"
    /\ UNCHANGED <<pc, entry, modelId, prompt, settings, transformedPrompt,
                   transformedSystemPrompt, parsed, path, body, calls, response,
                   streamResponse, error, upstream, readPos, output, result>>

(***************************************************************************)
(* The upstream body ends: the transformer has no flush (lines 208-230),   *)
(* so the readable side closes with what was enqueued.                     *)
(***************************************************************************)
UpstreamEnd ==
    /\ streamState = "open"
    /\ pos > Len(upstream)
    /\ streamState' = "closed"
    /\ UNCHANGED <<pc, entry, modelId, prompt, settings, transformedPrompt,
                   transformedSystemPrompt, parsed, path, body, calls, response,
                   streamResponse, error, upstream, pos, parts, readPos, output, result>>

(***************************************************************************)
(* doGenerate, lines 90-110.                                               *)
(***************************************************************************)
\* A variant that joins the output with a separator.
JoinOutputSpaced(out) == JoinStrings(out, <<" ">>)

\* line 100: output.join("")
JoinOutput(out) == JoinStrings(out, <<>>)

GenerateResult(out) ==
    [text |-> JoinOutput(out), finishReason |-> "stop",
     usage |-> [promptTokens |-> 0, completionTokens |-> 0]]

\* One turn of the for await loop on a part that is there (lines 91-97).
GenerateRead ==
    /\ pc = "consume"
    /\ readPos <= Len(parts)
    /\ LET part == parts[readPos]
       IN  IF part.type = "text-delta"
           THEN /\ output' = Append(output, part.textDelta)
                /\ readPos' = readPos + 1
                /\ UNCHANGED <<pc, result, streamState>>
           ELSE /\ pc' = "returned"
                /\ result' = GenerateResult(output)
                /\ streamState' = IF streamState = "open" THEN "cancelled" ELSE streamState
                /\ UNCHANGED <<output, readPos>>
    /\ UNCHANGED <<entry, modelId, prompt, settings, transformedPrompt,
                   transformedSystemPrompt, parsed, path, body, calls, response,
                   streamResponse, error, upstream, pos, parts>>

\* The loop ends because the stream is done and every part was read.
GenerateEnd ==
    /\ pc = "consume"
    /\ readPos > Len(parts)
    /\ streamState \in {"closed", "terminated"}
    /\ pc' = "returned"
    /\ result' = GenerateResult(output)
    /\ UNCHANGED <<entry, modelId, prompt, settings, transformedPrompt,
                   transformedSystemPrompt, parsed, path, body, calls, response,
                   streamResponse, error, upstream, pos, parts, streamState,
                   readPos, output>>

Next ==
    \/ BuildRequest
    \/ PostJsonToApi
    \/ FetchStream
    \/ Transform
    \/ UpstreamEnd
    \/ GenerateRead
    \/ GenerateEnd

Spec == Init /\ [][Next]_vars

\* The request builder alone, over every prompt and every settings object.
NextBuild == BuildRequest
SpecBuild == InitBuild /\ [][NextBuild]_vars

\* parseModelId alone, over every string up to MaxLen.
NextParse == BuildRequest
SpecParse == InitParse /\ [][NextParse]_vars

(***************************************************************************)
(* Operators the properties are stated with.  None of them is used by an   *)
(* action.                                                                 *)
(***************************************************************************)
\* The least index of s holding a member of S; Len(s) + 1 when there is none.
FirstIndex(s, S) ==
    IF \E i \in 1..Len(s) : s[i] \in S
    THEN CHOOSE i \in 1..Len(s) : s[i] \in S /\ \A j \in 1..(i - 1) : s[j] \notin S
    ELSE Len(s) + 1

\* The strings of a sequence of strings, one after the other.
RECURSIVE Concat(_)
Concat(ss) == IF ss = <<>> THEN <<>> ELSE ss[1] \o Concat(Tail(ss))

IsFinish(part) == part.type = "finish"
IsTextDelta(part) == part.type = "text-delta"
FinishCount(ps) == Cardinality({i \in 1..Len(ps) : IsFinish(ps[i])})

\* The textDelta of every text-delta part of ps, in order.
TextDeltasOf(ps) ==
    LET kept == SelectSeq(ps, IsTextDelta)
    IN  [i \in 1..Len(kept) |-> kept[i].textDelta]

\* The index of the first done event of the upstream sequence.
FirstDone == FirstIndex([i \in 1..Len(upstream) |-> upstream[i].event], {"done"})

\* The data of the output events among the first n upstream events.
OutputDatas(n) ==
    LET kept == SelectSeq(SubSeq(upstream, 1, n), LAMBDA ev : ev.event = "output")
    IN  [i \in 1..Len(kept) |-> kept[i].data]

Min(a, b) == IF a <= b THEN a ELSE b

StreamDone == streamState \in {"closed", "terminated"}

\* C1 (as claimed): for every upstream event sequence the completed stream
\* holds exactly one finish part, which is its last part, and no event after
\* the first done is transcoded.
C1_ExactlyOneFinish ==
    /\ FinishCount(parts) <= 1
    /\ \A i \in 1..Len(parts) : IsFinish(parts[i]) => i = Len(parts) /\ parts[i] = FinishPart
    /\ pos - 1 <= FirstDone
    /\ StreamDone => FinishCount(parts) = 1

\* C1, the part of it that holds: at most one finish part, which is the last
\* part; no event after the first done is transcoded; a stream that is done
\* holds a finish part exactly when the upstream held a done event.
C1_AtMostOneFinish ==
    /\ FinishCount(parts) <= 1
    /\ \A i \in 1..Len(parts) : IsFinish(parts[i]) => i = Len(parts) /\ parts[i] = FinishPart
    /\ pos - 1 <= FirstDone
    /\ StreamDone => (FinishCount(parts) = 1 <=> FirstDone <= Len(upstream))

\* C2: the text-delta parts are, in arrival order, the data of the output
\* events transcoded so far, none of them after the first done; a stream that
\* is done has transcoded every event before the first done; only a done
\* event terminates the stream, and no error is raised once it is open.
C2_TextDeltasAreOutputEvents ==
    streamState # "none" =>
        /\ TextDeltasOf(parts) = OutputDatas(Min(pos - 1, FirstDone - 1))
        /\ StreamDone => pos - 1 = Min(Len(upstream), FirstDone)
        /\ streamState = "terminated" => pos - 1 = FirstDone
        /\ pc # "failed"

\* C2 witness: an ignored event was followed by an output event that was
\* emitted, and an output event after the done was not.
C2_Witness ==
    /\ streamState = "terminated"
    /\ Len(upstream) = 3
    /\ upstream[1].event = "ping"
    /\ upstream[2] = [event |-> "output", data |-> <<"b", "c">>]
    /\ upstream[3].event = "done"
    /\ parts = <<TextDelta(<<"b", "c">>), FinishPart>>

\* The index of the first part that is no text-delta.
FirstNonTextDelta(ps) ==
    FirstIndex([i \in 1..Len(ps) |-> ps[i].type], {"finish"})

\* C3: when doGenerate has returned, the stream is done, the text is the
\* concatenation of the textDelta of the stream's parts before its first
\* non-text-delta part (which are the data of the upstream's output events
\* before its first done: what the completed stream of doStream yields for
\* the same upstream), doGenerate read no part beyond that one, and the
\* finish reason is stop with zero usage.
C3_GenerateIsStreamText ==
    (entry = "doGenerate" /\ pc = "returned") =>
        /\ StreamDone
        /\ result.text
             = Concat(TextDeltasOf(SubSeq(parts, 1, FirstNonTextDelta(parts) - 1)))
        /\ result.text = Concat(OutputDatas(Min(Len(upstream), FirstDone - 1)))
        /\ readPos = FirstNonTextDelta(parts)
        /\ Len(output) = readPos - 1
        /\ result.finishReason = "stop"
        /\ result.usage = [promptTokens |-> 0, completionTokens |-> 0]

\* C3 witness: doGenerate returned the text of two fragments at the finish part.
C3_Witness ==
    /\ entry = "doGenerate"
    /\ pc = "returned"
    /\ parts = <<TextDelta(<<"a">>), TextDelta(<<"b", "c">>), FinishPart>>
    /\ result.text = <<"a", "b", "c">>

Methods == [i \in 1..Len(calls) |-> calls[i].method]

\* C4: the steps run in the order parse, POST, GET, transcoding, each at most
\* once and only after the one before succeeded; a malformed model id fails
\* before the POST; a non-2xx answer with detail d fails with message d before
\* the GET; a schema mismatch or a missing body fails; a failed call has
\* produced no stream part.
C4_PipelineOrder ==
    /\ Methods \in {<<>>, <<"POST">>, <<"POST", "GET">>}
    /\ Len(calls) >= 1 => parsed.ok
    /\ (pc # "start" /\ ~parsed.ok) =>
            pc = "failed" /\ calls = <<>> /\ error = InvalidReference(modelId)
    /\ Len(calls) = 2 => response.status = "2xx" /\ response.valid
    /\ response.status = "non-2xx" =>
            pc = "failed" /\ error.message = response.detail /\ Len(calls) = 1
    /\ (response.status = "2xx" /\ ~response.valid) =>
            pc = "failed" /\ error # NoError /\ Len(calls) = 1
    /\ streamResponse = "no body" => pc = "failed" /\ error = MissingResponseBody
    /\ streamState # "none" => Len(calls) = 2 /\ streamResponse = "body"
    /\ pc = "failed" => parts = <<>> /\ streamState = "none" /\ error # NoError
    /\ pc \in {"consume", "returned"} => streamState # "none" /\ error = NoError

\* C4 witness: the initiation was answered non-2xx and the call failed with
\* the detail, after one POST and no GET.
C4_Witness ==
    /\ pc = "failed"
    /\ response.status = "non-2xx"
    /\ error.message = <<"rate limited">>
    /\ Methods = <<"POST">>

Built == pc # "start"

\* C5 (as claimed): the default prompt transformer returns the texts of the
\* text blocks of the user and assistant messages, one after the other with
\* nothing between them.
C5_PlainConcatenation ==
    (Built /\ ~settings.promptTransformer.present) =>
        transformedPrompt = transformPromptFlat(prompt)

HasSystemMessage == \E i \in 1..Len(prompt) : prompt[i].role = "system"
SystemConcatenation == Concat(SystemParts(prompt))

\* C6 (as claimed): the body has no system-prompt field when the prompt has
\* no system message, and otherwise holds the concatenation of the system
\* messages' content under the system-prompt key.  Stated for the requests in
\* which nothing else can set or drop that field: extraInput has no such key,
\* the prompt key is another key, and the system content is not the empty
\* string.
C6_SystemPromptField ==
    (/\ pc = "post"
     /\ SystemPromptKey(settings) \notin DOMAIN settings.extraInput
     /\ SystemPromptKey(settings) # PromptKey(settings)
     /\ HasSystemMessage => SystemConcatenation # <<>>) =>
        IF HasSystemMessage
        THEN /\ SystemPromptKey(settings) \in DOMAIN body.input
             /\ body.input[SystemPromptKey(settings)] = SystemConcatenation
        ELSE SystemPromptKey(settings) \notin DOMAIN body.input

\* C7 (as claimed): the system-prompt value is settings.systemPromptTransformer
\* applied to the prompt when that is given, and the default concatenation of
\* the system content when it is not, whatever settings.promptTransformer is.
C7_IndependentSystemTransformer ==
    pc = "post" =>
        LET own == CallSystemPromptTransformer(
                       SystemPromptTransformerOfOwnSetting(settings), prompt)
        IN  /\ transformedSystemPrompt = own
            /\ (Truthy(own) /\ SystemPromptKey(settings) # PromptKey(settings)) =>
                   /\ SystemPromptKey(settings) \in DOMAIN body.input
                   /\ body.input[SystemPromptKey(settings)] = own.value

\* C8 (as claimed): input holds the transformed prompt under the prompt key
\* and, when it is non-empty, the transformed system prompt under the
\* system-prompt key; every other key of extraInput keeps its value.
C8_BothKeysHeld ==
    pc = "post" =>
        /\ body.input[PromptKey(settings)] = transformedPrompt
        /\ Truthy(transformedSystemPrompt) =>
               body.input[SystemPromptKey(settings)] = transformedSystemPrompt.value
        /\ \A k \in DOMAIN settings.extraInput \ {PromptKey(settings), SystemPromptKey(settings)} :
               body.input[k] = settings.extraInput[k]

\* C8 (amended): input holds a non-empty transformed system prompt under the
\* system-prompt key; it holds the transformed prompt under the prompt key
\* unless the two keys are the same and the system prompt is non-empty (the
\* system prompt then takes the key); its keys are those of extraInput and
\* these two; every key of extraInput that neither overrides keeps its value.
C8_InputKeys ==
    pc = "post" =>
        LET pk == PromptKey(settings)
            sk == SystemPromptKey(settings)
            sys == Truthy(transformedSystemPrompt)
        IN  /\ DOMAIN body.input
                 = DOMAIN settings.extraInput \cup {pk} \cup (IF sys THEN {sk} ELSE {})
            /\ sys => body.input[sk] = transformedSystemPrompt.value
            /\ (pk # sk \/ ~sys) => body.input[pk] = transformedPrompt
            /\ \A k \in DOMAIN settings.extraInput :
                   (k # pk /\ (k # sk \/ ~sys)) => body.input[k] = settings.extraInput[k]

\* C8 witness: the two keys are the same key, which extraInput holds too, and
\* the non-empty system prompt, not the prompt, is under it.
C8_Witness ==
    /\ pc = "post"
    /\ PromptKey(settings) = SystemPromptKey(settings)
    /\ PromptKey(settings) \in DOMAIN settings.extraInput
    /\ "top_p" \in DOMAIN body.input
    /\ Truthy(transformedSystemPrompt)
    /\ transformedPrompt # transformedSystemPrompt.value
    /\ body.input[PromptKey(settings)] = transformedSystemPrompt.value

\* The model id has a version segment: a ":" after the first "/".
HasVersionSegment(ref) ==
    \E i \in 1..Len(ref) : ref[i] = ":" /\ FirstIndex(ref, {"/"}) < i

\* C9: for a model id that parses, the path is /v1/predictions and the body's
\* version is the parsed version exactly when the id has a version segment;
\* otherwise the path is /v1/models/{owner}/{name}/predictions and the body
\* has no version.
C9_PathAndVersion ==
    pc = "post" =>
        IF HasVersionSegment(modelId)
        THEN /\ path = <<"/v1/predictions">>
             /\ DOMAIN body = {"version", "input"}
             /\ parsed.version.present
             /\ body.version = parsed.version.value
        ELSE /\ path = <<"/v1/models/">> \o parsed.owner \o <<"/">> \o parsed.name
                        \o <<"/predictions">>
             /\ DOMAIN body = {"input"}

\* C9 witness: a model id with a version took the generic path.
C9_Witness ==
    /\ pc = "post"
    /\ modelId = <<"a", "/", "a", ":", ":">>
    /\ path = <<"/v1/predictions">>
    /\ body.version = <<":">>
    /\ DOMAIN body = {"version", "input"}

\* owner "/" name with both non-empty and no "/" in either.
OwnerSlashName(s) ==
    /\ FirstIndex(s, {"/"}) \in 2..(Len(s) - 1)
    /\ \A i \in 1..Len(s) : s[i] = "/" => i = FirstIndex(s, {"/"})

\* C10 (as claimed): with the version being everything after the first ":" of
\* the string (and not empty), parseModelId returns owner, name and version of
\* a string of the form owner/name or owner/name:version, owner and name
\* non-empty and without "/", and fails for every other string.
C10_VersionAfterFirstColon ==
    Built =>
        LET k == FirstIndex(modelId, {":"})
            head == SubSeq(modelId, 1, k - 1)
            i == FirstIndex(head, {"/"})
            version == IF k > Len(modelId) THEN None
                       ELSE Some(SubSeq(modelId, k + 1, Len(modelId)))
        IN  IF OwnerSlashName(head) /\ (k > Len(modelId) \/ k < Len(modelId))
            THEN /\ parsed.ok
                 /\ parsed.owner = SubSeq(head, 1, i - 1)
                 /\ parsed.name = SubSeq(head, i + 1, Len(head))
                 /\ parsed.version = version
            ELSE ~parsed.ok /\ error = InvalidReference(modelId)

\* C10 (amended): parseModelId returns owner, name and version when the owner
\* is the non-empty text before the first "/", the name is the non-empty text
\* after it up to the first "/" or ":" that follows, and what follows the
\* name is nothing (no version) or a ":" and a non-empty version without a
\* line terminator, which is everything after that ":"; for every other
\* string it fails with the invalid-reference error that names the string.
C10_ParseModelId ==
    Built =>
        LET i == FirstIndex(modelId, {"/"})
            rest == SubSeq(modelId, i + 1, Len(modelId))
            k == FirstIndex(rest, {"/", ":"})
            wellFormed == /\ i >= 2
                          /\ k >= 2
                          /\ \/ k > Len(rest)
                             \/ /\ rest[k] = ":"
                                /\ k < Len(rest)
                                /\ \A j \in (k + 1)..Len(rest) : rest[j] \notin {"\n", "\r"}
        IN  IF wellFormed
            THEN /\ parsed.ok
                 /\ pc = "post"
                 /\ parsed.owner = SubSeq(modelId, 1, i - 1)
                 /\ parsed.name = SubSeq(rest, 1, k - 1)
                 /\ parsed.version = IF k > Len(rest) THEN None
                                     ELSE Some(SubSeq(rest, k + 1, Len(rest)))
            ELSE /\ ~parsed.ok
                 /\ pc = "failed"
                 /\ error.message
                      = <<"Invalid reference to model version: ">> \o modelId
                        \o <<". Expected format: owner/name or owner/name:version">>

\* C10 witness: an owner holding a ":" was parsed, with a version that is not
\* everything after the first ":" of the string.
C10_Witness ==
    /\ pc = "post"
    /\ modelId = <<":", "/", "a", ":", "/">>
    /\ parsed.owner = <<":">>
    /\ parsed.name = <<"a">>
    /\ parsed.version = Some(<<"/">>)
====
